---- MODULE Spec2Model ----
\* A model of vector.h: RawMemory<T> (a block of raw slots) and Vector<T>
\* (one RawMemory plus the count of live elements).
\*
\* A slot of a block holds Raw (no live element), Empty (a live element that
\* is value-initialised or moved-from) or one of Values.  Slots are indexed
\* from 0 as in the source.  Every public operation is one action; an action
\* that runs element operations which may throw takes a fault index f:
\* f = 0 lets every step succeed, f = j makes the j-th fallible step throw.
EXTENDS Integers, FiniteSets, Sequences, TLC

\* ---------------------------------------------------------------- bounds
MaxCap  == 4      \* slots the allocator can hand out in all

\* ---------------------------------------------------------------- values
Raw    == -1
Empty  == 0
Values == {1, 2}        \* two distinguishable element values
Vecs   == {"a", "b"}
Kinds  == {"movable", "copy"}

VARIABLES
    kind,   \* the element type T: "movable" (nothrow move constructor that empties
            \* its source, e.g. std::string) or "copy" (the move constructor may
            \* throw, so transfers copy; a copy leaves its source as it is and may throw)
    vec,    \* vec[v] = [alive, buf, cap, size, ptr]: whether v is constructed, the
            \* slots of the block data_.buffer_ points to (0-based), data_.capacity_,
            \* size_, and what data_.buffer_ is: "null", the address of an allocated
            \* block ("live") or the address of a released one ("freed")
    heap,   \* what the addresses do not tell by themselves: whether the two vectors
            \* hold the same non-null address (same), how many allocated blocks no
            \* vector holds any more (lost), whether a released block was released
            \* again (twice)
    last,   \* the call that produced this state and how it ended
    pushed, \* pushed[v]: the values appended to v since Vector() while nothing
            \* but PushBack / EmplaceBack was called on it, else Off
    arg     \* what the last call was passed: a "value" of its own, or a reference
            \* to an element of the vector it was called on ("own")

vars == <<kind, vec, heap, last, pushed, arg>>

\* ------------------------------------------------------- element operations
Live(x) == x # Raw

\* std::is_nothrow_move_constructible_v<T> || !std::is_copy_constructible_v<T>
UsesMove == kind = "movable"

\* the value a moved-from element is left with
MovedFrom(x) == IF kind = "movable" THEN Empty ELSE x

\* number of steps of a call that may throw, given how many element
\* constructions / assignments it runs
Fallible(n) == IF kind = "copy" THEN n ELSE 0

\* ------------------------------------------------------------- RawMemory
NoBlock == [i \in {} |-> Raw]

\* RawMemory::Allocate: n raw slots
RawBlock(n) == [i \in 0..(n - 1) |-> Raw]

\* RawMemory::Allocate(n): a fresh block, nullptr for n = 0
Allocate(n) == IF n # 0 THEN "live" ELSE "null"

\* a destructor that does not release
DeallocateNothing(vv, h, v) == vv

\* RawMemory::Deallocate(buffer_) in the RawMemory of v: the block is released,
\* for every vector that holds its address (operator delete(nullptr) does nothing)
Deallocate(vv, h, v) ==
    [w \in Vecs |-> IF vv[v].ptr = "live" /\ (w = v \/ h.same)
                     THEN [vv[w] EXCEPT !.ptr = "freed"] ELSE vv[w]]

\* the address v holds is overwritten or goes away with v: the block is lost when
\* it is still allocated and no other vector holds it
Leaks(vv, h, v) == IF vv[v].ptr = "live" /\ ~h.same THEN 1 ELSE 0

\* the heap after v's RawMemory released its block (out of vv) and v's buffer_
\* was then set to a fresh address or nullptr (leaving vv2)
Released(vv, vv2, v) ==
    [same  |-> FALSE,
     lost  |-> heap.lost + Leaks(vv2, heap, v),
     twice |-> heap.twice \/ vv[v].ptr = "freed"]

\* a vector that is not constructed, or is empty without a block
NoVector(alive) == [alive |-> alive, buf |-> NoBlock, cap |-> 0, size |-> 0, ptr |-> "null"]

\* the slots behind data_ of vector v
Data(v) == vec[v].buf

Size(v) == vec[v].size

Capacity(v) == vec[v].cap

\* the live prefix of v as a sequence (what operator[] reads at 0..size-1)
Contents(v) == [i \in 1..Size(v) |-> Data(v)[i - 1]]

\* a destroy_n that is forgotten: the elements stay live
DestroyNone(d, from, n) == d

\* std::destroy_n(d + from, n)
DestroyN(d, from, n) == [i \in DOMAIN d |-> IF i >= from /\ i < from + n THEN Raw ELSE d[i]]

\* std::uninitialized_copy_n(src + from, n, dst + to) when no copy throws
UninitCopyDst(src, from, n, dst, to) ==
    [i \in DOMAIN dst |-> IF i >= to /\ i < to + n THEN src[i - to + from] ELSE dst[i]]

\* std::uninitialized_move_n(src + from, n, dst + to): what the destination
\* holds (the moved-from sources are destroyed right after, with their block)
UninitMoveDst(src, from, n, dst, to) ==
    [i \in DOMAIN dst |-> IF i >= to /\ i < to + n THEN src[i - to + from] ELSE dst[i]]

\* a transfer that walks the source from its end
TransferDstReversed(src, from, n, dst, to) ==
    [i \in DOMAIN dst |-> IF i >= to /\ i < to + n THEN src[from + n - 1 - (i - to)] ELSE dst[i]]

\* the transfer of n elements src[from..] -> dst[to..] chosen by `if constexpr`
TransferDst(src, from, n, dst, to) ==
    IF UsesMove THEN UninitMoveDst(src, from, n, dst, to)
                ELSE UninitCopyDst(src, from, n, dst, to)

\* a value construction that stops one element early
ValueConstructShort(d, from, n) ==
    [i \in DOMAIN d |-> IF i >= from /\ i < from + n - 1 THEN Empty ELSE d[i]]

\* std::uninitialized_value_construct_n(d + from, n)
ValueConstructN(d, from, n) ==
    [i \in DOMAIN d |-> IF i >= from /\ i < from + n THEN Empty ELSE d[i]]

\* std::uninitialized_copy_n(src + from, n, dst + to) when copy number j throws:
\* the j - 1 copies made so far are destroyed before the exception leaves
UninitCopyThrow(src, from, dst, to, j) ==
    DestroyN(UninitCopyDst(src, from, j - 1, dst, to), to, j - 1)

\* std::move_backward(d + first, d + lst, d + dlast), from the back
RECURSIVE MoveBackward(_, _, _, _)
MoveBackward(d, first, lst, dlast) ==
    IF lst <= first THEN d
    ELSE MoveBackward([d EXCEPT ![dlast - 1] = d[lst - 1], ![lst - 1] = MovedFrom(d[lst - 1])],
                      first, lst - 1, dlast - 1)

\* std::copy_backward(d + first, d + lst, d + dlast) of which only the first k
\* assignments are run (k = lst - first: all of them)
RECURSIVE CopyBackward(_, _, _, _, _)
CopyBackward(d, first, lst, dlast, k) ==
    IF lst <= first \/ k = 0 THEN d
    ELSE CopyBackward([d EXCEPT ![dlast - 1] = d[lst - 1]], first, lst - 1, dlast - 1, k - 1)

\* a std::move whose range ends one element early
MoveForwardShort(d, first, lst, dfirst) ==
    [i \in DOMAIN d |-> IF i >= dfirst /\ i < dfirst + (lst - 1 - first)
                         THEN d[i + (first - dfirst)] ELSE d[i]]

\* std::move(d + first, d + lst, d + dfirst), from the front
RECURSIVE MoveForward(_, _, _, _)
MoveForward(d, first, lst, dfirst) ==
    IF lst <= first THEN d
    ELSE MoveForward([d EXCEPT ![dfirst] = d[first], ![first] = MovedFrom(d[first])],
                     first + 1, lst, dfirst + 1)

\* std::copy(d + first, d + lst, d + dfirst) of which only the first k
\* assignments are run
RECURSIVE CopyForward(_, _, _, _, _)
CopyForward(d, first, lst, dfirst, k) ==
    IF lst <= first \/ k = 0 THEN d
    ELSE CopyForward([d EXCEPT ![dfirst] = d[first]], first + 1, lst, dfirst + 1, k - 1)

\* how many slots of d among S hold a live element
LiveCount(d, S) == Cardinality({i \in S \cap DOMAIN d : Live(d[i])})

\* a growth that forgets to double
GrownCapacityStuck(v) == IF Capacity(v) = 0 THEN 1 ELSE Capacity(v)

\* a growth by one slot
GrownCapacityByOne(v) == Capacity(v) + 1

\* capacity of the block the growth paths allocate
GrownCapacity(v) == IF Capacity(v) = 0 THEN 1 ELSE Capacity(v) * 2

\* ------------------------------------------------------------ bookkeeping
\* a run ends at the first call that throws or crashes (nothing catches)
Running == last.outcome = "ok"

\* what `last` records of a call: the operation, the branch it took
\* ("inplace", "grow", "noop", ...), how it ended ("ok", "throw", "crash") and,
\* of the blocks it released, how many slots still held a live element: the
\* newly constructed one (leakNew), any other (leakOld)
Call(op, path, outcome, leakNew, leakOld) ==
    [op |-> op, path |-> path, outcome |-> outcome, leakNew |-> leakNew, leakOld |-> leakOld]

\* the call ends with v's block rewritten in place; a vector that holds the
\* same address sees the same slots
InPlace(v, d, newSize) ==
    /\ vec' = [w \in Vecs |-> IF w = v THEN [vec[v] EXCEPT !.buf = d, !.size = newSize]
                               ELSE IF heap.same THEN [vec[w] EXCEPT !.buf = d]
                               ELSE vec[w]]
    /\ UNCHANGED heap

\* data_.Swap(new_data) followed by ~RawMemory of new_data: v adopts the new
\* block of newCap slots holding d, the old block is released
Adopt(v, d, newCap, newSize) ==
    LET vv == Deallocate(vec, heap, v)
    IN  /\ vec' = [vv EXCEPT ![v] = [alive |-> TRUE, buf |-> d, cap |-> newCap,
                                     size |-> newSize, ptr |-> Allocate(newCap)]]
        /\ heap' = Released(vec, vv, v)

\* the call throws having changed nothing of the vectors; a block it had
\* allocated for new_data is released by ~RawMemory on the way out
Unchanged == UNCHANGED <<vec, heap>>

\* the record of appends: Off once anything else has changed the vector
Off == <<Raw>>

Appended(v, val) ==
    pushed' = [pushed EXCEPT ![v] = IF last'.outcome # "ok" \/ @ = Off THEN @ ELSE Append(@, val)]

Forget == pushed' = [v \in Vecs |-> IF vec'[v] = vec[v] THEN pushed[v] ELSE Off]

Started(v) == pushed' = [pushed EXCEPT ![v] = <<>>]

Passed(what) == arg' = what

\* the fault index of a call whose allocation fails: operator new throws
\* std::bad_alloc before the call has done anything else
NoMem == -1

\* the fault indices of a call that runs at most n fallible steps
Faults(n) == NoMem..Fallible(n)

\* an allocation made after the old elements were destroyed
AllocFailedAfterDestroy(op, v) ==
    /\ InPlace(v, DestroyN(Data(v), 0, Size(v)), 0)
    /\ last' = Call(op, "grow", "bad_alloc", 0, 0)

\* RawMemory new_data(n) throws in a call on v: nothing of the call has run
AllocFailed(op, v) ==
    /\ Unchanged
    /\ last' = Call(op, "grow", "bad_alloc", 0, 0)

\* what the build may make of std::move_backward / std::copy_backward on the
\* range [size, size - 1) that Emplace(end(), ...) passes when capacity is spare
Builds(v, pos) ==
    IF Size(v) > 0 /\ Size(v) < Capacity(v) /\ pos = Size(v) THEN {"noop", "crash"} ELSE {"noop"}

\* ------------------------------------------------------------------ Init
Init ==
    /\ kind \in Kinds
    /\ vec = [v \in Vecs |-> NoVector(v = "a")]
    /\ heap = [same |-> FALSE, lost |-> 0, twice |-> FALSE]
    /\ last = Call("Vector", "none", "ok", 0, 0)
    /\ pushed = [v \in Vecs |-> IF v = "a" THEN <<>> ELSE Off]
    /\ arg = "value"

\* a Reserve without its early return: it reallocates to n whenever n differs
ReserveExact(v, n, f) ==
    /\ Running /\ vec[v].alive
    /\ n \in Size(v)..MaxCap
    /\ f = 0
    /\ UNCHANGED kind
    /\ Adopt(v, TransferDst(Data(v), 0, Size(v), RawBlock(n), 0), n, Size(v))
    /\ last' = Call("Reserve", "grow", "ok", 0, 0)

\* a Reserve that allocates at least the doubled capacity
ReserveRounded(v, n, f) ==
    LET nc == IF n > GrownCapacity(v) THEN n ELSE GrownCapacity(v)
    IN  /\ Running /\ vec[v].alive
        /\ n \in 0..MaxCap
        /\ f = 0
        /\ UNCHANGED kind
        /\ IF n <= Capacity(v)
           THEN Unchanged /\ last' = Call("Reserve", "noop", "ok", 0, 0)
           ELSE /\ Adopt(v, TransferDst(Data(v), 0, Size(v), RawBlock(nc), 0), nc, Size(v))
                /\ last' = Call("Reserve", "grow", "ok", 0, 0)

\* --------------------------------------------------------------- Reserve
Reserve(v, n, f) ==
    /\ Running /\ vec[v].alive
    /\ n \in 0..MaxCap
    /\ UNCHANGED kind
    /\ IF n <= Capacity(v)
       THEN /\ f = 0
            /\ Unchanged
            /\ last' = Call("Reserve", "noop", "ok", 0, 0)
       ELSE /\ f \in NoMem..Fallible(Size(v))
            /\ IF f = NoMem
               THEN AllocFailed("Reserve", v)
               ELSE IF f = 0
               THEN /\ Adopt(v, TransferDst(Data(v), 0, Size(v), RawBlock(n), 0), n, Size(v))
                    /\ last' = Call("Reserve", "grow", "ok", 0, 0)
               ELSE \* uninitialized_copy_n destroys the copies it made and rethrows
                    /\ Unchanged
                    /\ last' = Call("Reserve", "grow", "throw", 0, 0)

\* a PopBack without its test of size_
PopBackUnchecked(v) ==
    /\ Running /\ vec[v].alive
    /\ UNCHANGED kind
    /\ InPlace(v, DestroyN(Data(v), Size(v) - 1, 1), Size(v) - 1)
    /\ last' = Call("PopBack", "inplace", "ok", 0, 0)

\* --------------------------------------------------------------- PopBack
PopBack(v) ==
    /\ Running /\ vec[v].alive
    /\ UNCHANGED kind
    /\ IF Size(v) > 0
       THEN /\ InPlace(v, DestroyN(Data(v), Size(v) - 1, 1), Size(v) - 1)
            /\ last' = Call("PopBack", "inplace", "ok", 0, 0)
       ELSE /\ Unchanged
            /\ last' = Call("PopBack", "noop", "ok", 0, 0)

\* -------------------------------------------------------------- PushBack
\* the growth path shared by the text of PushBack and EmplaceBack: the new
\* element goes to new_data + size_ first, then the old elements follow
AppendGrow(op, v, val, f) ==
    LET n   == Size(v)
        nc  == GrownCapacity(v)
        nd0 == [RawBlock(nc) EXCEPT ![n] = val]
    IN  /\ nc <= MaxCap
        /\ f \in NoMem..Fallible(1 + n)
        /\ IF f = NoMem
           THEN AllocFailed(op, v)
           ELSE IF f = 0
           THEN /\ Adopt(v, TransferDst(Data(v), 0, n, nd0, 0), nc, n + 1)
                /\ last' = Call(op, "grow", "ok", 0, 0)
           ELSE IF f = 1
           THEN \* the new element's constructor throws: new_data is released raw
                /\ Unchanged
                /\ last' = Call(op, "grow", "throw", 0, 0)
           ELSE \* copy f - 1 of the transfer throws: ~RawMemory releases new_data as it is
                LET nd == UninitCopyThrow(Data(v), 0, nd0, 0, f - 1)
                IN  /\ Unchanged
                    /\ last' = Call(op, "grow", "throw",
                                    LiveCount(nd, {n}), LiveCount(nd, 0..(n - 1)))

AppendInPlace(op, v, val, f) ==
    /\ f \in 0..Fallible(1)
    /\ IF f = 0
       THEN /\ InPlace(v, [Data(v) EXCEPT ![Size(v)] = val], Size(v) + 1)
            /\ last' = Call(op, "inplace", "ok", 0, 0)
       ELSE /\ Unchanged
            /\ last' = Call(op, "inplace", "throw", 0, 0)

PushBack(v, val, f) ==
    /\ Running /\ vec[v].alive
    /\ val \in Values
    /\ UNCHANGED kind
    /\ IF Size(v) < Capacity(v)
       THEN AppendInPlace("PushBack", v, val, f)
       ELSE AppendGrow("PushBack", v, val, f)

EmplaceBack(v, val, f) ==
    /\ Running /\ vec[v].alive
    /\ val \in Values
    /\ UNCHANGED kind
    /\ IF Size(v) < Capacity(v)
       THEN AppendInPlace("EmplaceBack", v, val, f)
       ELSE AppendGrow("EmplaceBack", v, val, f)

\* a reference to v[i] read once the old elements have been transferred
ArgReadAfterTransfer(d, i) == MovedFrom(d[i])

\* what `const T& value` bound to v[i] yields when the new element is
\* constructed from it: the call has not touched the block d yet
ArgRead(d, i) == d[i]

\* v.PushBack(v[i])
PushBackOwn(v, i, f) ==
    /\ Running /\ vec[v].alive
    /\ i \in 0..(Size(v) - 1)
    /\ UNCHANGED kind
    /\ IF Size(v) < Capacity(v)
       THEN AppendInPlace("PushBack", v, ArgRead(Data(v), i), f)
       ELSE AppendGrow("PushBack", v, ArgRead(Data(v), i), f)

\* v.EmplaceBack(v[i])
EmplaceBackOwn(v, i, f) ==
    /\ Running /\ vec[v].alive
    /\ i \in 0..(Size(v) - 1)
    /\ UNCHANGED kind
    /\ IF Size(v) < Capacity(v)
       THEN AppendInPlace("EmplaceBack", v, ArgRead(Data(v), i), f)
       ELSE AppendGrow("EmplaceBack", v, ArgRead(Data(v), i), f)

\* --------------------------------------------------------------- Emplace
\* size_ < capacity and size_ > 0: the last element is constructed one slot
\* further, [pos, size - 1) is shifted right, new_el is assigned to slot pos.
\* With pos = size the shifted range is [size, size - 1): first > last, which
\* the algorithm is not defined for; ub is what the build makes of it.
EmplaceShift(op, v, pos, val, f, ub) ==
    LET n   == Size(v)
        d   == Data(v)
        cnt == IF pos < n THEN n - 1 - pos ELSE 0
        d1  == [d EXCEPT ![n] = d[n - 1], ![n - 1] = MovedFrom(d[n - 1])]
    IN  /\ f \in 0..Fallible(3 + cnt)
        /\ ub \in Builds(v, pos)
        /\ ub = "crash" => f = 0
        /\ IF ub = "crash"
           THEN /\ InPlace(v, d1, n)
                /\ last' = Call(op, "inplace", "crash", 0, 0)
           ELSE IF f = 0
           THEN LET d2 == IF UsesMove THEN MoveBackward(d1, pos, n - 1, n)
                                      ELSE CopyBackward(d1, pos, n - 1, n, cnt)
                IN  /\ InPlace(v, [d2 EXCEPT ![pos] = val], n + 1)
                    /\ last' = Call(op, "inplace", "ok", 0, 0)
           ELSE IF f \in {1, 2}
           THEN \* new_el's constructor, or the construction of slot size, throws
                /\ Unchanged
                /\ last' = Call(op, "inplace", "throw", 0, 0)
           ELSE \* assignment f - 2 of copy_backward throws, or (f = 3 + cnt)
                \* the assignment of new_el to slot pos does
                /\ InPlace(v, CopyBackward(d1, pos, n - 1, n, f - 3), n)
                /\ last' = Call(op, "inplace", "throw", 0, 0)

\* size_ = capacity: the new element is constructed at new_data + pos, then
\* the prefix [0, pos) and the suffix [pos, size) are transferred around it
EmplaceGrow(op, v, pos, val, f) ==
    LET n   == Size(v)
        d   == Data(v)
        nc  == GrownCapacity(v)
        nd0 == [RawBlock(nc) EXCEPT ![pos] = val]
        nd1 == TransferDst(d, 0, pos, nd0, 0)
        nd2 == TransferDst(d, pos, n - pos, nd1, pos + 1)
    IN  /\ nc <= MaxCap
        /\ f \in NoMem..Fallible(1 + n)
        /\ IF f = NoMem
           THEN AllocFailed(op, v)
           ELSE IF f = 0
           THEN /\ Adopt(v, nd2, nc, n + 1)
                /\ last' = Call(op, "grow", "ok", 0, 0)
           ELSE IF f = 1
           THEN /\ Unchanged
                /\ last' = Call(op, "grow", "throw", 0, 0)
           ELSE LET nd == IF f - 1 <= pos
                          THEN UninitCopyThrow(d, 0, nd0, 0, f - 1)
                          ELSE UninitCopyThrow(d, pos, nd1, pos + 1, f - 1 - pos)
                IN  /\ Unchanged
                    /\ last' = Call(op, "grow", "throw",
                                    LiveCount(nd, {pos}), LiveCount(nd, (0..n) \ {pos}))

EmplacePaths(op, v, pos, val, f, ub) ==
    /\ Running /\ vec[v].alive
    /\ pos \in 0..Size(v)
    /\ UNCHANGED kind
    /\ IF Size(v) < Capacity(v)
       THEN IF Size(v) > 0
            THEN EmplaceShift(op, v, pos, val, f, ub)
            ELSE ub = "noop" /\ AppendInPlace(op, v, val, f)
       ELSE ub = "noop" /\ EmplaceGrow(op, v, pos, val, f)

EmplaceImpl(op, v, pos, val, f, ub) == val \in Values /\ EmplacePaths(op, v, pos, val, f, ub)

Emplace(v, pos, val, f, ub) == EmplaceImpl("Emplace", v, pos, val, f, ub)

\* v.Insert(pos, v[i]), which is Emplace(pos, v[i]) and recorded as Emplace
InsertOwn(v, pos, i, f, ub) ==
    /\ i \in 0..(Size(v) - 1)
    /\ EmplacePaths("Emplace", v, pos, ArgRead(Data(v), i), f, ub)

\* Insert(pos, value) is `return Emplace(pos, value)`: the call is recorded as Emplace
Insert(v, pos, val, f, ub) == EmplaceImpl("Emplace", v, pos, val, f, ub)

\* ----------------------------------------------------------------- Erase
Erase(v, pos, f) ==
    LET n   == Size(v)
        d   == Data(v)
        cnt == n - 1 - pos
    IN  /\ Running /\ vec[v].alive
        /\ pos \in 0..(n - 1)
        /\ f \in 0..Fallible(cnt)
        /\ UNCHANGED kind
        /\ IF f = 0
           THEN LET d1 == IF UsesMove THEN MoveForward(d, pos + 1, n, pos)
                                      ELSE CopyForward(d, pos + 1, n, pos, cnt)
                IN  \* PopBack()
                    /\ InPlace(v, DestroyN(d1, n - 1, 1), n - 1)
                    /\ last' = Call("Erase", "inplace", "ok", 0, 0)
           ELSE \* assignment f of std::copy throws
                /\ InPlace(v, CopyForward(d, pos + 1, n, pos, f - 1), n)
                /\ last' = Call("Erase", "inplace", "throw", 0, 0)

\* ------------------------------------------------------------ operator[]
\* v[i] = val through the reference operator[] returns
StoreAt(v, i, val, f) ==
    /\ Running /\ vec[v].alive
    /\ i \in 0..(Size(v) - 1)
    /\ val \in Values
    /\ f \in 0..Fallible(1)
    /\ UNCHANGED kind
    /\ IF f = 0
       THEN /\ InPlace(v, [Data(v) EXCEPT ![i] = val], Size(v))
            /\ last' = Call("operator[]", "inplace", "ok", 0, 0)
       ELSE /\ Unchanged
            /\ last' = Call("operator[]", "inplace", "throw", 0, 0)

\* ---------------------------------------------------------------- Resize
Resize(v, n, f) ==
    LET sz    == Size(v)
        grows == n > Capacity(v)
        rsv   == IF grows THEN sz ELSE 0          \* copies made by Reserve
        ctr   == IF n > sz THEN n - sz ELSE 0     \* value constructions
        path  == IF grows THEN "grow" ELSE "inplace"
        d1    == IF grows THEN TransferDst(Data(v), 0, sz, RawBlock(n), 0) ELSE Data(v)
        d2    == IF n > sz THEN ValueConstructN(d1, sz, n - sz) ELSE DestroyN(d1, n, sz - n)
    IN  /\ Running /\ vec[v].alive
        /\ n \in 0..MaxCap
        /\ f \in (IF grows THEN NoMem ELSE 0)..Fallible(rsv + ctr)
        /\ UNCHANGED kind
        /\ IF f = NoMem
           THEN \* the allocation of Reserve fails
                AllocFailed("Resize", v)
           ELSE IF f = 0
           THEN /\ IF grows THEN Adopt(v, d2, n, n) ELSE InPlace(v, d2, n)
                /\ last' = Call("Resize", path, "ok", 0, 0)
           ELSE IF f <= rsv
           THEN \* Reserve throws
                /\ Unchanged
                /\ last' = Call("Resize", path, "throw", 0, 0)
           ELSE \* a value construction throws: those made are destroyed, size_ stays
                /\ IF grows THEN Adopt(v, d1, n, sz) ELSE Unchanged
                /\ last' = Call("Resize", path, "throw", 0, 0)

\* ---------------------------------------------- construction, destruction
\* Vector() = default
DefaultCtor(v) ==
    /\ Running /\ ~vec[v].alive
    /\ vec' = [vec EXCEPT ![v] = NoVector(TRUE)]
    /\ UNCHANGED <<kind, heap>>
    /\ last' = Call("Vector", "none", "ok", 0, 0)

\* explicit Vector(size_t size)
SizedCtor(v, n, f) ==
    /\ Running /\ ~vec[v].alive
    /\ n \in 0..MaxCap
    /\ f \in (IF n # 0 THEN NoMem ELSE 0)..Fallible(n)
    /\ UNCHANGED kind
    /\ IF f = NoMem
       THEN AllocFailed("Vector(n)", v)
       ELSE IF f = 0
       THEN /\ Adopt(v, ValueConstructN(RawBlock(n), 0, n), n, n)
            /\ last' = Call("Vector(n)", "grow", "ok", 0, 0)
       ELSE /\ Unchanged
            /\ last' = Call("Vector(n)", "grow", "throw", 0, 0)

\* a copy constructor that copies the members: buffer_, capacity_, size_
CopyCtorShallow(v, o, f) ==
    /\ Running /\ ~vec[v].alive /\ vec[o].alive
    /\ f = 0
    /\ UNCHANGED kind
    /\ vec' = [vec EXCEPT ![v] = vec[o]]
    /\ heap' = [heap EXCEPT !.same = vec[o].ptr # "null"]
    /\ last' = Call("Vector(const&)", "grow", "ok", 0, 0)

\* Vector(const Vector& other)
CopyCtor(v, o, f) ==
    /\ Running /\ ~vec[v].alive /\ vec[o].alive
    /\ f \in (IF Size(o) # 0 THEN NoMem ELSE 0)..Fallible(Size(o))
    /\ UNCHANGED kind
    /\ IF f = NoMem
       THEN AllocFailed("Vector(const&)", v)
       ELSE IF f = 0
       THEN /\ Adopt(v, UninitCopyDst(Data(o), 0, Size(o), RawBlock(Size(o)), 0), Size(o), Size(o))
            /\ last' = Call("Vector(const&)", "grow", "ok", 0, 0)
       ELSE /\ Unchanged
            /\ last' = Call("Vector(const&)", "grow", "throw", 0, 0)

\* Vector::Swap: data_.Swap(other.data_); std::swap(size_, other.size_)
Swap(vv, v, o) ==
    [vv EXCEPT ![v] = [vv[o] EXCEPT !.alive = vv[v].alive],
               ![o] = [vv[v] EXCEPT !.alive = vv[o].alive]]

\* Vector(Vector&& other): the members are default-initialised, then swapped
MoveCtor(v, o) ==
    /\ Running /\ ~vec[v].alive /\ vec[o].alive
    /\ vec' = Swap([vec EXCEPT ![v] = NoVector(TRUE)], v, o)
    /\ UNCHANGED <<kind, heap>>
    /\ last' = Call("Vector(&&)", "none", "ok", 0, 0)

\* operator=(Vector&& other)
MoveAssign(v, o) ==
    /\ Running /\ vec[v].alive /\ vec[o].alive
    /\ vec' = Swap(vec, v, o)
    /\ UNCHANGED <<kind, heap>>
    /\ last' = Call("operator=(&&)", IF v = o THEN "self" ELSE "none", "ok", 0, 0)

\* ~Vector, then ~RawMemory
Destroy(v) ==
    /\ Running /\ vec[v].alive
    /\ LET vv == Deallocate(vec, heap, v)
       IN  /\ vec' = [vv EXCEPT ![v] = NoVector(FALSE)]
           /\ heap' = Released(vec, vv, v)
    /\ UNCHANGED kind
    /\ last' = Call("~Vector", "none", "ok", 0,
                    LiveCount(DestroyN(Data(v), 0, Size(v)), DOMAIN Data(v)))

\* ------------------------------------------------- operator=(const Vector&)
Min(x, y) == IF x < y THEN x ELSE y

\* a loop that assigns nothing
AssignPrefixSkipped(d, r, k) == d

\* for (i = 0; i < rhs.size_ && i < size_; ++i) data_[i] = rhs.data_[i], of
\* which only the first k assignments are run
AssignPrefix(d, r, k) == [i \in DOMAIN d |-> IF i < k THEN r[i] ELSE d[i]]

CopyAssign(v, r, f) ==
    LET n  == Size(v)
        m  == Size(r)
        i  == Min(n, m)
        d1 == AssignPrefix(Data(v), Data(r), i)
        d2 == UninitCopyDst(Data(r), i, m - i, d1, i)
        d3 == DestroyN(d2, i, n - i)
    IN  /\ Running /\ vec[v].alive /\ vec[r].alive
        /\ UNCHANGED kind
        /\ IF v = r
           THEN /\ f = 0
                /\ Unchanged
                /\ last' = Call("operator=(const&)", "self", "ok", 0, 0)
           ELSE IF Capacity(v) < m
           THEN \* Vector rhs_copy(rhs); Swap(rhs_copy); ~rhs_copy
                /\ f \in NoMem..Fallible(m)
                /\ IF f = NoMem
                   THEN AllocFailed("operator=(const&)", v)
                   ELSE IF f = 0
                   THEN /\ Adopt(v, UninitCopyDst(Data(r), 0, m, RawBlock(m), 0), m, m)
                        /\ last' = Call("operator=(const&)", "grow", "ok", 0, 0)
                   ELSE /\ Unchanged
                        /\ last' = Call("operator=(const&)", "grow", "throw", 0, 0)
           ELSE /\ f \in 0..Fallible(i + (m - i))
                /\ IF f = 0
                   THEN /\ InPlace(v, d3, m)
                        /\ last' = Call("operator=(const&)", "inplace", "ok", 0, 0)
                   ELSE \* assignment f throws (f <= i), or copy f - i does and
                        \* uninitialized_copy_n destroys the copies it made
                        /\ InPlace(v, AssignPrefix(Data(v), Data(r), Min(f - 1, i)), n)
                        /\ last' = Call("operator=(const&)", "inplace", "throw", 0, 0)

\* ------------------------------------------------- the steps of the calls
\* every slot of S is a slot of d that holds no live element: a placement
\* construction may target it
Raws(d, S) == \A i \in S : i \in DOMAIN d /\ ~Live(d[i])

\* every slot of S is a slot of d that holds a live element: a read, an
\* assignment or a destruction may target it
Lives(d, S) == \A i \in S : i \in DOMAIN d /\ Live(d[i])

\* uninitialized_move_n / uninitialized_copy_n of n elements src[from..] to
\* dst[to..]: reads the sources, constructs the destinations
TransferSteps(src, from, n, dst, to) ==
    /\ Lives(src, from..(from + n - 1))
    /\ Raws(dst, to..(to + n - 1))

\* Reserve(n): the transfer into new_data, then destroy_n of the old elements
ReserveSteps(v, n) ==
    n > Capacity(v) =>
        /\ TransferSteps(Data(v), 0, Size(v), RawBlock(n), 0)
        /\ Lives(Data(v), 0..(Size(v) - 1))

\* Resize(n): Reserve, then value construction of [size, n) or destroy_n of [n, size)
ResizeSteps(v, n) ==
    LET d1 == IF n > Capacity(v) THEN TransferDst(Data(v), 0, Size(v), RawBlock(n), 0)
                                 ELSE Data(v)
    IN  /\ ReserveSteps(v, n)
        /\ IF n > Size(v) THEN Raws(d1, Size(v)..(n - 1)) ELSE Lives(d1, n..(Size(v) - 1))

\* PushBack / EmplaceBack: construction at slot size of the own or the new
\* block, then the transfer and destroy_n of the old elements
AppendSteps(v) ==
    LET nd == RawBlock(GrownCapacity(v))
    IN  IF Size(v) < Capacity(v)
        THEN Raws(Data(v), {Size(v)})
        ELSE /\ Raws(nd, {Size(v)})
             /\ TransferSteps(Data(v), 0, Size(v), [nd EXCEPT ![Size(v)] = Empty], 0)
             /\ Lives(Data(v), 0..(Size(v) - 1))

\* PopBack: destroy_at of slot size - 1
PopBackSteps(v) == Size(v) > 0 => Lives(Data(v), {Size(v) - 1})

\* Emplace with spare capacity and size > 0: construction at slot size from slot
\* size - 1, the backward shift of [pos, size - 1) (reads and assignments within
\* [pos, size)), the assignment to slot pos.  On the range [size, size - 1) a
\* build that runs the algorithm steps through slots outside [0, size).
EmplaceShiftSteps(v, pos, ub) ==
    LET n  == Size(v)
        d  == Data(v)
        d1 == [d EXCEPT ![n] = d[n - 1]]
    IN  /\ Lives(d, {n - 1})
        /\ Raws(d, {n})
        /\ IF pos <= n - 1 THEN Lives(d1, pos..(n - 1)) ELSE ub = "noop"
        /\ Lives(d1, {pos})

\* Emplace at full capacity: construction at new_data + pos, the transfers of
\* [0, pos) and [pos, size) around it, destroy_n of the old elements
EmplaceGrowSteps(v, pos) ==
    LET n   == Size(v)
        nd  == RawBlock(GrownCapacity(v))
        nd0 == [nd EXCEPT ![pos] = Empty]
        nd1 == TransferDst(Data(v), 0, pos, nd0, 0)
    IN  /\ Raws(nd, {pos})
        /\ TransferSteps(Data(v), 0, pos, nd0, 0)
        /\ TransferSteps(Data(v), pos, n - pos, nd1, pos + 1)
        /\ Lives(Data(v), 0..(n - 1))

EmplaceSteps(v, pos, ub) ==
    IF Size(v) < Capacity(v)
    THEN IF Size(v) > 0 THEN EmplaceShiftSteps(v, pos, ub) ELSE Raws(Data(v), {0})
    ELSE EmplaceGrowSteps(v, pos)

\* Erase(pos): the forward shift reads and assigns within [pos, size), then PopBack
EraseSteps(v, pos) == Lives(Data(v), pos..(Size(v) - 1))

\* operator=(const Vector&) within capacity: assignments to [0, i), copy
\* construction of [i, rhs.size), destroy_n of [i, size); otherwise the copy
\* construction of rhs_copy and the destruction of the old elements with it
CopyAssignSteps(v, r) ==
    LET n  == Size(v)
        m  == Size(r)
        i  == Min(n, m)
        d1 == AssignPrefix(Data(v), Data(r), i)
        d2 == UninitCopyDst(Data(r), i, m - i, d1, i)
    IN  IF v = r THEN TRUE
        ELSE IF Capacity(v) < m
        THEN /\ TransferSteps(Data(r), 0, m, RawBlock(m), 0)
             /\ Lives(Data(v), 0..(n - 1))
        ELSE /\ Lives(Data(v), 0..(i - 1)) /\ Lives(Data(r), 0..(i - 1))
             /\ TransferSteps(Data(r), i, m - i, d1, i)
             /\ Lives(d2, i..(n - 1))

\* ~Vector: destroy_n of [0, size)
DestroySteps(v) == Lives(Data(v), 0..(Size(v) - 1))

\* the blocks the vectors own fit the allocator's budget
Fits == vec["a"].cap + vec["b"].cap <= MaxCap

\* the calls the program makes: "a" is the vector it works on, "b" the one it
\* copies and moves from and to.  The element copies that throw are drawn in the
\* calls that are passed a value; those passed a reference to an element of
\* "a" run to their end or fail to allocate.  Insert(pos, value) with a value
\* of its own is the Emplace(pos, value) it forwards to.
Next ==
    \/ \E n \in 0..MaxCap : \E f \in Faults(Size("a")) : Reserve("a", n, f) /\ Fits' /\ Forget /\ Passed("value")
    \/ \E n \in 0..MaxCap, f \in Faults(MaxCap) : Resize("a", n, f) /\ Fits' /\ Forget /\ Passed("value")
    \/ PopBack("a") /\ Fits' /\ Forget /\ Passed("value")
    \/ \E x \in Values, f \in Faults(Size("a") + 1) : PushBack("a", x, f) /\ Fits' /\ Appended("a", x) /\ Passed("value")
    \/ \E x \in Values, f \in Faults(Size("a") + 1) : EmplaceBack("a", x, f) /\ Fits' /\ Appended("a", x) /\ Passed("value")
    \/ \E p \in 0..Size("a"), x \in Values, f \in Faults(Size("a") + 3) : \E ub \in Builds("a", p) :
          Emplace("a", p, x, f, ub) /\ Fits' /\ Forget /\ Passed("value")
    \/ \E p \in 0..(Size("a") - 1), f \in Faults(Size("a")) : Erase("a", p, f) /\ Fits' /\ Forget /\ Passed("value")
    \/ \E i \in 0..(Size("a") - 1), x \in Values, f \in Faults(1) : StoreAt("a", i, x, f) /\ Fits' /\ Forget /\ Passed("value")
    \/ \E v \in Vecs : DefaultCtor(v) /\ Fits' /\ Started(v) /\ Passed("value")
    \/ \E v \in Vecs, n \in 0..MaxCap : \E f \in Faults(n) : SizedCtor(v, n, f) /\ Fits' /\ Forget /\ Passed("value")
    \/ \E v \in Vecs : \E o \in Vecs \ {v} : \E f \in Faults(Size(o)) : CopyCtor(v, o, f) /\ Fits' /\ Forget /\ Passed("value")
    \/ \E v \in Vecs : \E o \in Vecs \ {v} : MoveCtor(v, o) /\ Fits' /\ Forget /\ Passed("value")
    \/ \E v \in Vecs, o \in Vecs : \E f \in Faults(Size(o)) : CopyAssign(v, o, f) /\ Fits' /\ Forget /\ Passed("value")
    \/ \E v \in Vecs, o \in Vecs : MoveAssign(v, o) /\ Fits' /\ Forget /\ Passed("value")
    \/ \E v \in Vecs : Destroy(v) /\ Fits' /\ Forget /\ Passed("value")
    \/ \E i \in 0..(Size("a") - 1), f \in Faults(0) :
          PushBackOwn("a", i, f) /\ Fits' /\ Appended("a", ArgRead(Data("a"), i)) /\ Passed("own")
    \/ \E i \in 0..(Size("a") - 1), f \in Faults(0) :
          EmplaceBackOwn("a", i, f) /\ Fits' /\ Appended("a", ArgRead(Data("a"), i)) /\ Passed("own")
    \/ \E p \in 0..Size("a"), i \in 0..(Size("a") - 1), f \in Faults(0) :
          \E ub \in Builds("a", p) : InsertOwn("a", p, i, f, ub) /\ Fits' /\ Forget /\ Passed("own")

Spec == Init /\ [][Next]_vars

\* ================================================================ claims
\* what a sequence becomes with x inserted before 0-based position p
InsertAt(s, p, x) ==
    [i \in 1..(Len(s) + 1) |-> IF i <= p THEN s[i] ELSE IF i = p + 1 THEN x ELSE s[i - 1]]

\* what a sequence becomes with the element at 0-based position p removed
RemoveAt(s, p) == [i \in 1..(Len(s) - 1) |-> IF i <= p THEN s[i] ELSE s[i + 1]]

\* exactly the slots [0, size) of v's block hold a live element
WellFormed(v) ==
    /\ DOMAIN Data(v) = 0..(Capacity(v) - 1)
    /\ \A i \in DOMAIN Data(v) : Live(Data(v)[i]) <=> i < Size(v)

GrowingOps == {"Reserve", "Resize", "PushBack", "EmplaceBack", "Emplace"}

\* C1: Insert(pos, x) / Emplace(pos, x) that completes, for every pos in
\* [begin, end] and either element type, with or without spare capacity,
\* yields the old contents with x inserted before pos (size + 1, x at pos, the
\* others in their order).  Stated for the build in which the ill-formed
\* range of Emplace(end(), ...) is a no-op.
C1_InsertKeepsOrder ==
    [][\A p \in 0..MaxCap, x \in Values :
          (Insert("a", p, x, 0, "noop") \/ Emplace("a", p, x, 0, "noop"))
              => Contents("a")' = InsertAt(Contents("a"), p, x)]_vars

\* C2: after moving o into v, by move construction or move assignment and
\* whatever v held, v has o's size, capacity and contents and o is empty.
C2_MoveLeavesSourceEmpty ==
    [][\A v \in Vecs : \A o \in Vecs \ {v} :
          (MoveCtor(v, o) \/ MoveAssign(v, o))
              => /\ Size(v)' = Size(o) /\ Capacity(v)' = Capacity(o)
                 /\ Contents(v)' = Contents(o)
                 /\ Size(o)' = 0 /\ Capacity(o)' = 0]_vars

\* C3: after any sequence of calls that all completed, exactly the slots
\* [0, size) of every vector hold live elements and [size, capacity) none.
C3_LiveSlots == last.outcome = "ok" => \A v \in Vecs : WellFormed(v)

C3_Witness ==
    /\ last.op = "Emplace" /\ last.path = "inplace" /\ last.outcome = "ok"
    /\ Size("a") = 3 /\ Capacity("a") = 4

\* C4: Size() <= Capacity() in every reachable state of every vector.
C4_SizeWithinCapacity == \A v \in Vecs : Size(v) <= Capacity(v)

C4_Witness ==
    /\ last.op = "PushBack" /\ last.path = "inplace" /\ last.outcome = "ok"
    /\ Size("a") = 2 /\ Capacity("a") = 2

\* C5: when a copy fails while the old elements are transferred to a new block
\* (Reserve, PushBack / EmplaceBack growth, Insert / Emplace growth), the vector
\* is exactly as before the call and the new block is released with none of
\* the transferred elements left live in it.
C5_FailedTransferKeepsOld ==
    [][(last'.outcome = "throw" /\ last'.path = "grow" /\ last'.op \in GrowingOps \ {"Resize"})
          => vec' = vec /\ last'.leakOld = 0]_vars

\* C6: when the transfer fails in a growth path of PushBack, EmplaceBack or
\* Insert / Emplace, the element already constructed in the new block is
\* destroyed before the failure propagates.
C6_NewElementDestroyed ==
    [][(last'.outcome = "throw" /\ last'.path = "grow"
            /\ last'.op \in {"PushBack", "EmplaceBack", "Emplace"})
          => last'.leakNew = 0]_vars

\* C7: when a copy or an assignment fails during the in-place shift of
\* Insert / Emplace or the left shift of Erase, the vector holds exactly its
\* contents from before the call or exactly those the call was to produce, and
\* no live element outside [0, size).
C7_FailedShiftAllOrNothing ==
    [][(last'.outcome = "throw" /\ last'.path = "inplace" /\ last'.op \in {"Emplace", "Erase"})
          => /\ WellFormed("a")'
             /\ \/ Contents("a")' = Contents("a")
                \/ \E p \in 0..MaxCap, x \in Values : Contents("a")' = InsertAt(Contents("a"), p, x)
                \/ \E p \in 0..MaxCap : Contents("a")' = RemoveAt(Contents("a"), p)]_vars

\* C8: Erase(pos) with pos in [begin, end) takes one off the size, keeps the
\* capacity, keeps the elements before pos and shifts those after pos left by
\* one, in their order.
C8_EraseKeepsOrder ==
    [][last'.op = "Erase" => \A p \in 0..MaxCap :
          Erase("a", p, 0)
              => /\ Contents("a")' = RemoveAt(Contents("a"), p)
                 /\ Capacity("a")' = Capacity("a")]_vars

C8_Witness ==
    /\ last.op = "Erase" /\ last.outcome = "ok"
    /\ kind = "movable" /\ Size("a") = 3 /\ Capacity("a") = 4

\* C9: from an empty vector, after PushBack / EmplaceBack of e1 .. en the size
\* is n and indices 0 .. n-1 read e1 .. en, across every reallocation.
C9_PushBackRoundTrip ==
    \A v \in Vecs : (vec[v].alive /\ pushed[v] # Off) => Contents(v) = pushed[v]

C9_Witness ==
    /\ pushed["a"] # Off /\ Len(pushed["a"]) = 3 /\ pushed["a"][1] # pushed["a"][2]
    /\ last.path = "grow" /\ Capacity("a") = 4

\* C10: across Reserve, Resize, PushBack, EmplaceBack, Insert and Emplace
\* calls the capacity of a vector never decreases.
C10_CapacityMonotone ==
    [][last'.op \in GrowingOps => \A v \in Vecs : Capacity(v)' >= Capacity(v)]_vars

C10_Witness ==
    /\ last.op = "Resize" /\ last.path = "inplace" /\ last.outcome = "ok"
    /\ Size("a") = 1 /\ Capacity("a") = 4

\* C11: when the allocation of a block fails inside Reserve, Resize, PushBack,
\* EmplaceBack, Insert / Emplace or copy assignment, the error leaves the call
\* and every vector is exactly as before: size, capacity, block and elements.
AllocatingOps == GrowingOps \cup {"operator=(const&)"}

C11_FailedAllocationChangesNothing ==
    [][(last'.outcome = "bad_alloc" /\ last'.op \in AllocatingOps) => vec' = vec]_vars

C11_Witness ==
    /\ last.outcome = "bad_alloc" /\ last.op = "operator=(const&)"
    /\ Size("a") = 2 /\ Capacity("a") = 2 /\ Size("b") = 1

Max(x, y) == IF x > y THEN x ELSE y

\* the capacities a vector goes through while it is appended to from empty
Progression == <<0, 1, 2, 4>>

\* C12: a PushBack, EmplaceBack, Insert or Emplace that returns leaves the
\* capacity at max(1, 2 x old capacity) when it was called with size = capacity
\* and unchanged when it was called with size < capacity; so a vector appended
\* to 0, 1, 2, 3 times from empty has capacity 0, 1, 2, 4.
C12_GrowthDoubles ==
    [][/\ (last'.outcome = "ok" /\ last'.op \in {"PushBack", "EmplaceBack", "Emplace"})
            => Capacity("a")' = IF Size("a") = Capacity("a")
                                THEN Max(1, 2 * Capacity("a")) ELSE Capacity("a")
       /\ pushed' # pushed
            => \A v \in Vecs : (vec'[v].alive /\ pushed'[v] # Off /\ Len(pushed'[v]) <= 3)
                                  => Capacity(v)' = Progression[Len(pushed'[v]) + 1]]_vars

C12_Witness ==
    /\ last.op = "EmplaceBack" /\ last.path = "grow" /\ last.outcome = "ok"
    /\ pushed["a"] # Off /\ Size("a") = 3 /\ Capacity("a") = 4

\* C13: Reserve(k) that returns leaves the size and the elements as they
\* were and the capacity at max(old capacity, k): exactly k when k is larger,
\* never less than before; a Reserve(k) with k within the capacity, such as a
\* second Reserve(k), changes nothing.
C13_ReserveExactNoShrink ==
    [][last'.op = "Reserve" => \A k \in 0..(MaxCap + 1) :
          Reserve("a", k, 0)
              => /\ Size("a")' = Size("a")
                 /\ Contents("a")' = Contents("a")
                 /\ Capacity("a")' = Max(Capacity("a"), k)
                 /\ k <= Capacity("a") => vec' = vec]_vars

C13_Witness ==
    /\ last.op = "Reserve" /\ last.path = "grow" /\ last.outcome = "ok"
    /\ Size("a") = 2 /\ Capacity("a") = 3 /\ Data("a")[0] \in Values

\* C14: copy assignment of r to a distinct v whose capacity is at least
\* r's size keeps v's capacity, gives v the size and the elements of r
\* and leaves r as it was, whether r's size is below, at or above v's.
C14_CopyAssignReuses ==
    [][last'.op = "operator=(const&)" => \A v \in Vecs : \A r \in Vecs \ {v} :
          (CopyAssign(v, r, 0) /\ Capacity(v) >= Size(r))
              => /\ Capacity(v)' = Capacity(v)
                 /\ Size(v)' = Size(r)
                 /\ Contents(v)' = Contents(r)
                 /\ vec'[r] = vec[r]]_vars

C14_Witness ==
    /\ last.op = "operator=(const&)" /\ last.path = "inplace" /\ last.outcome = "ok"
    /\ Size("a") = 1 /\ Capacity("a") = 2 /\ Data("a")[0] \in Values /\ Size("b") = 1

\* C15: Resize(n) that returns leaves size = n, the first min(old size, n)
\* elements as they were, the elements [old size, n) value-initialised, no live
\* element in [n, capacity) and capacity = max(old capacity, n).
C15_ResizeContract ==
    [][last'.op = "Resize" => \A n \in 0..(MaxCap + 1) :
          Resize("a", n, 0)
              => /\ Size("a")' = n
                 /\ Capacity("a")' = Max(Capacity("a"), n)
                 /\ DOMAIN Data("a")' = 0..(Capacity("a")' - 1)
                 /\ \A i \in 0..(Min(Size("a"), n) - 1) : Data("a")'[i] = Data("a")[i]
                 /\ \A i \in Size("a")..(n - 1) : Data("a")'[i] = Empty
                 /\ \A i \in n..(Capacity("a")' - 1) : Data("a")'[i] = Raw]_vars

C15_Witness ==
    /\ last.op = "Resize" /\ last.path = "grow" /\ last.outcome = "ok"
    /\ Size("a") = 3 /\ Capacity("a") = 3
    /\ Data("a")[0] \in Values /\ Data("a")[2] = Empty

\* C16: at any point of any sequence of constructions, copies, moves,
\* assignments, reservations, growths and destructions, the two vectors never
\* hold the same block, every vector with capacity holds an allocated block
\* and one without holds none, no allocated block is left without a vector
\* that holds it, and no block is released a second time.
C16_SingleOwner ==
    /\ ~heap.same
    /\ heap.lost = 0
    /\ ~heap.twice
    /\ \A v \in Vecs : vec[v].ptr = IF Capacity(v) > 0 THEN "live" ELSE "null"

C16_Witness ==
    /\ last.op = "operator=(&&)" /\ last.outcome = "ok"
    /\ vec["a"].ptr = "live" /\ vec["b"].ptr = "live"
    /\ Capacity("a") = 1 /\ Capacity("b") = 2

\* the calls that change the vector they are made on
MutatingOps ==
    {"Reserve", "Resize", "PushBack", "EmplaceBack", "Emplace", "Erase", "PopBack", "operator[]"}

\* C17: copy construction gives the new vector the size and the elements of
\* its source in a block of its own and leaves the source as it was; a later
\* PushBack, Insert, Erase, element write, Resize, ... on one of the two vectors
\* leaves the size, the capacity and the elements of the other as they were.
C17_CopyIsIndependent ==
    /\ [][last'.op = "Vector(const&)" => \A v \in Vecs : \A o \in Vecs \ {v} :
              CopyCtor(v, o, 0)
                  => /\ Size(v)' = Size(o)
                     /\ Contents(v)' = Contents(o)
                     /\ vec'[o] = vec[o]
                     /\ vec'[v].ptr = Allocate(Size(o)) /\ ~heap'.same]_vars
    /\ [][last'.op \in MutatingOps => vec'["b"] = vec["b"]]_vars

C17_Witness ==
    /\ last.op = "operator[]" /\ last.outcome = "ok"
    /\ Size("a") = 2 /\ Size("b") = 2 /\ Capacity("b") = 2
    /\ Data("b")[0] \in Values /\ Data("a")[0] \in Values \ {Data("b")[0]}
    /\ Data("a")[1] = Data("b")[1]

\* C19: in every call made within its preconditions every placement
\* construction targets a slot without a live element and every read,
\* assignment and destruction targets a slot with one (a call that throws runs
\* a prefix of these steps), whatever the build makes of the call; and a
\* destroyed vector leaves no live element behind in the block it releases.
C19_StepsOnRightSlots ==
    [][/\ \A n \in 0..(MaxCap + 1) : Reserve("a", n, 0) => ReserveSteps("a", n)
       /\ \A n \in 0..(MaxCap + 1) : Resize("a", n, 0) => ResizeSteps("a", n)
       /\ \A x \in Values : (PushBack("a", x, 0) \/ EmplaceBack("a", x, 0)) => AppendSteps("a")
       /\ PopBack("a") => PopBackSteps("a")
       /\ \A p \in 0..MaxCap, x \in Values, ub \in {"noop", "crash"} :
              (Emplace("a", p, x, 0, ub) \/ Insert("a", p, x, 0, ub)) => EmplaceSteps("a", p, ub)
       /\ \A p \in 0..MaxCap : Erase("a", p, 0) => EraseSteps("a", p)
       /\ \A i \in 0..MaxCap, x \in Values : StoreAt("a", i, x, 0) => Lives(Data("a"), {i})
       /\ \A v \in Vecs, r \in Vecs : CopyAssign(v, r, 0) => CopyAssignSteps(v, r)
       /\ \A v \in Vecs : \A o \in Vecs \ {v} :
              CopyCtor(v, o, 0) => TransferSteps(Data(o), 0, Size(o), RawBlock(Size(o)), 0)
       /\ \A v \in Vecs : Destroy(v) => DestroySteps(v) /\ last'.leakOld = 0]_vars

\* C20: when PushBack, EmplaceBack, Insert or Emplace is passed a reference
\* to the element v[i] of the vector it is called on and returns, the element
\* appended or inserted has the value v[i] had before the call, with spare
\* capacity and with reallocation.
C20_OwnElementArgument ==
    [][(arg' = "own" /\ last'.outcome = "ok") =>
          IF last'.op = "Emplace"
          THEN \A p \in 0..Size("a"), i \in 0..(Size("a") - 1) :
                  InsertOwn("a", p, i, 0, "noop") => Data("a")'[p] = Data("a")[i]
          ELSE \A i \in 0..(Size("a") - 1) :
                  (PushBackOwn("a", i, 0) \/ EmplaceBackOwn("a", i, 0))
                      => Data("a")'[Size("a")] = Data("a")[i]]_vars

C20_Witness ==
    /\ arg = "own" /\ last.op = "PushBack" /\ last.path = "grow" /\ last.outcome = "ok"
    /\ kind = "movable" /\ Size("a") = 3
    /\ Data("a")[0] \in Values /\ Data("a")[2] = Data("a")[0] /\ Data("a")[1] \notin {Data("a")[0], Empty}

\* C18: PopBack() on an empty vector changes nothing; on a non-empty one it
\* destroys the last live element and only that one, takes one off the size
\* and keeps the capacity and the other elements.
C18_PopBackSafe ==
    [][(last'.op = "PopBack" /\ PopBack("a"))
          => IF Size("a") = 0
             THEN vec' = vec
             ELSE /\ Size("a")' = Size("a") - 1
                  /\ Capacity("a")' = Capacity("a")
                  /\ Data("a")' = [Data("a") EXCEPT ![Size("a") - 1] = Raw]
                  /\ Live(Data("a")[Size("a") - 1])
                  /\ vec'["b"] = vec["b"]]_vars

C18_Witness ==
    /\ last.op = "PopBack" /\ last.path = "noop" /\ last.outcome = "ok"
    /\ Size("a") = 0 /\ Capacity("a") = 2
====
